---- MODULE Spec2Model ----
(***************************************************************************)
(* Model of the NFA class of NFA.py: the automaton record, its mutators,   *)
(* the simulation (run), reachability pruning, renumbering, the JSON       *)
(* adapter and the three Thompson combinators.                             *)
(***************************************************************************)
EXTENDS Integers, Sequences, FiniteSets, TLC

\* ------------------------------------------------------------------ bounds
MaxState == 2       \* largest identifier an operation may produce
MaxSteps == 2       \* number of operations applied to the automaton
MaxLen == 2         \* length of the input strings given to run
MaxTo == 2          \* length of the to_states argument of add_transition

\* ----------------------------------------------------------------- symbols
\* the character '\0' under which the combinators store epsilon edges
EPS == "\\0"
Symbols == {"a", "b"}
InputChars == Symbols \cup {EPS}

\* --------------------------------------------------------------- utilities
Max(S) == CHOOSE m \in S : \A x \in S : x <= m
Range(seq) == {seq[i] : i \in 1..Len(seq)}
SeqsUpTo(S, n) == UNION {[1..k -> S] : k \in 0..n}
\* tuples of distinct elements, as a script writes a to_states argument
Tuples(S, n) ==
    {seq \in SeqsUpTo(S, n) : \A i, j \in 1..Len(seq) : seq[i] = seq[j] => i = j}
Inputs == SeqsUpTo(InputChars, MaxLen)

\* dict.get(key, []) on the transition table
Get(table, key) == IF key \in DOMAIN table THEN table[key] ELSE {}

\* ------------------------------------------------------------- constructor
NFA(states, alphabet, start_state, accept_states) ==
    [states |-> states,
     alphabet |-> alphabet,
     transition_table |-> << >>,
     start_state |-> start_state,
     accept_states |-> accept_states]

\* ---------------------------------------------------------- add_transition
\* the for-loop over to_states: the first offending element raises
RECURSIVE check_targets(_, _, _)
check_targets(self, to_states, i) ==
    IF i > Len(to_states) THEN "ok"
    ELSE IF to_states[i] \notin self.states THEN "UnknownState"
    ELSE IF to_states[i] = self.start_state THEN "IllegalStartTarget"
    ELSE check_targets(self, to_states, i + 1)

\* transition_table[key].update(to_states), creating the key when absent
update(table, key, targets) ==
    [k \in DOMAIN table \cup {key} |->
        IF k = key THEN Get(table, key) \cup targets ELSE table[k]]

\* a variant that inserts each target as soon as it has passed its own checks
RECURSIVE partial_targets(_, _, _, _)
partial_targets(self, key, to_states, i) ==
    IF i > Len(to_states) THEN self
    ELSE IF to_states[i] \notin self.states \/ to_states[i] = self.start_state
         THEN self
    ELSE partial_targets(
            [self EXCEPT !.transition_table = update(@, key, {to_states[i]})],
            key, to_states, i + 1)

add_transition_partial(self, from_state, symbol, to_states) ==
    IF symbol \notin self.alphabet
    THEN [raised |-> "InvalidSymbol", nfa |-> self]
    ELSE IF from_state \notin self.states
    THEN [raised |-> "UnknownState", nfa |-> self]
    ELSE [raised |-> check_targets(self, to_states, 1),
          nfa |-> IF check_targets(self, to_states, 1) = "ok"
                  THEN [self EXCEPT !.transition_table =
                           update(@, <<from_state, symbol>>, Range(to_states))]
                  ELSE partial_targets(self, <<from_state, symbol>>, to_states, 1)]

\* returns the exception raised ("ok" when none) and the automaton afterwards
add_transition(self, from_state, symbol, to_states) ==
    IF symbol \notin self.alphabet
    THEN [raised |-> "InvalidSymbol", nfa |-> self]
    ELSE IF from_state \notin self.states
    THEN [raised |-> "UnknownState", nfa |-> self]
    ELSE IF check_targets(self, to_states, 1) # "ok"
    THEN [raised |-> check_targets(self, to_states, 1), nfa |-> self]
    ELSE [raised |-> "ok",
          nfa |-> [self EXCEPT !.transition_table =
                      update(@, <<from_state, symbol>>, Range(to_states))]]

\* ------------------------------------------------- new_state and add_symbol
new_state(self) == [self EXCEPT !.states = @ \cup {Max(@) + 1}]

add_symbol(self, symbol) == [self EXCEPT !.alphabet = @ \cup {symbol}]

\* --------------------------------------------------------------------- run
\* index counts from 0 as in the source; input_str is a sequence of symbols
RECURSIVE run_helper(_, _, _, _)
run_helper(self, current_state, input_str, index) ==
    IF index = Len(input_str)
    THEN current_state \in self.accept_states
    ELSE \E next_state \in
              Get(self.transition_table, <<current_state, input_str[index + 1]>>) :
            run_helper(self, next_state, input_str, index + 1)

run(self, input_str) == run_helper(self, self.start_state, input_str, 0)

\* ------------------------------------------------------------ reachability
\* the while-loop of get_unreachable; boundary.pop() takes an arbitrary
\* element and the set computed does not depend on which
RECURSIVE reach_loop(_, _, _)
reach_loop(self, reachable_states, boundary) ==
    IF boundary = {} THEN reachable_states
    ELSE LET s == CHOOSE x \in boundary : TRUE
             found == UNION {Get(self.transition_table, <<s, symbol>>) :
                                symbol \in self.alphabet}
             fresh == found \ reachable_states
         IN reach_loop(self, reachable_states \cup fresh,
                       (boundary \ {s}) \cup fresh)

get_unreachable(self) ==
    self.states \ reach_loop(self, {self.start_state}, {self.start_state})

remove_unreachable(self) ==
    LET unreachable == get_unreachable(self)
    IN [self EXCEPT
          !.states = @ \ unreachable,
          !.accept_states = @ \ unreachable,
          !.transition_table =
              [k \in {key \in DOMAIN @ : key[1] \notin unreachable} |-> @[k]]]

\* ------------------------------------------------------------- renumbering
\* a variant that forgets to shift the targets of the transitions
get_with_offset_targets(self, offset) ==
    [states |-> {state + offset : state \in self.states},
     alphabet |-> self.alphabet,
     transition_table |->
        [k \in {<<key[1] + offset, key[2]>> : key \in DOMAIN self.transition_table} |->
            self.transition_table[<<k[1] - offset, k[2]>>]],
     start_state |-> self.start_state + offset,
     accept_states |-> {state + offset : state \in self.accept_states}]

get_with_offset(self, offset) ==
    [states |-> {state + offset : state \in self.states},
     alphabet |-> self.alphabet,
     transition_table |->
        [k \in {<<key[1] + offset, key[2]>> : key \in DOMAIN self.transition_table} |->
            {s + offset : s \in self.transition_table[<<k[1] - offset, k[2]>>]}],
     start_state |-> self.start_state + offset,
     accept_states |-> {state + offset : state \in self.accept_states}]

\* ------------------------------------------------------------- combinators
\* the merge loop shared by concatenation and alternative: the tables are
\* united key by key
merge(table1, table2) ==
    [k \in DOMAIN table1 \cup DOMAIN table2 |-> Get(table1, k) \cup Get(table2, k)]

\* an epsilon edge from every state of sources to target
add_epsilon(table, sources, target) ==
    [k \in DOMAIN table \cup {<<s, EPS>> : s \in sources} |->
        IF k[2] = EPS /\ k[1] \in sources
        THEN Get(table, k) \cup {target}
        ELSE table[k]]

\* offset is reset to 0 and nfa2 is used as it is
concatenation(nfa1, nfa2) ==
    LET nfa2_offset == nfa2
    IN [states |-> nfa1.states \cup nfa2_offset.states,
        alphabet |-> nfa1.alphabet \cup nfa2_offset.alphabet,
        transition_table |->
            add_epsilon(merge(nfa1.transition_table, nfa2_offset.transition_table),
                        nfa1.accept_states, nfa2_offset.start_state),
        start_state |-> nfa1.start_state,
        accept_states |-> nfa2_offset.accept_states]

alternative(nfa1, nfa2) ==
    LET offset == Max(nfa1.states) + 1
        nfa2_offset == get_with_offset(nfa2, offset)
        new_start_state == Max(nfa2_offset.states) + 1
        merged == merge(nfa1.transition_table, nfa2_offset.transition_table)
    IN [states |-> nfa1.states \cup nfa2_offset.states \cup {new_start_state},
        alphabet |-> nfa1.alphabet \cup nfa2_offset.alphabet,
        transition_table |->
            [k \in DOMAIN merged \cup {<<new_start_state, EPS>>} |->
                IF k = <<new_start_state, EPS>>
                THEN {nfa1.start_state, nfa2_offset.start_state}
                ELSE merged[k]],
        start_state |-> new_start_state,
        accept_states |-> nfa1.accept_states \cup nfa2_offset.accept_states]

\* a variant whose repetition edges lead back to the new start state
iteration_into_start(nfa) ==
    LET new_start_state == Max(nfa.states) + 1
        with_start == [k \in DOMAIN nfa.transition_table \cup {<<new_start_state, EPS>>} |->
                          IF k = <<new_start_state, EPS>>
                          THEN {nfa.start_state}
                          ELSE nfa.transition_table[k]]
    IN [states |-> nfa.states \cup {new_start_state},
        alphabet |-> nfa.alphabet,
        transition_table |-> add_epsilon(with_start, nfa.accept_states, new_start_state),
        start_state |-> new_start_state,
        accept_states |-> nfa.accept_states \cup {new_start_state}]

iteration(nfa) ==
    LET new_start_state == Max(nfa.states) + 1
        with_start == [k \in DOMAIN nfa.transition_table \cup {<<new_start_state, EPS>>} |->
                          IF k = <<new_start_state, EPS>>
                          THEN {nfa.start_state}
                          ELSE nfa.transition_table[k]]
    IN [states |-> nfa.states \cup {new_start_state},
        alphabet |-> nfa.alphabet,
        transition_table |-> add_epsilon(with_start, nfa.accept_states, nfa.start_state),
        start_state |-> new_start_state,
        accept_states |-> nfa.accept_states \cup {new_start_state}]

\* -------------------------------------------------------------------- JSON
\* list(a_set): the elements in some order
RECURSIVE SetToSeq(_)
SetToSeq(S) ==
    IF S = {} THEN << >>
    ELSE LET x == CHOOSE e \in S : TRUE
         IN <<x>> \o SetToSeq(S \ {x})

\* the orders in which transition_table.items() may enumerate the keys: any
\* key may come first.  Whether a record makes add_transition raise depends on
\* states, alphabet and start_state alone, so the first record that raises can
\* be any of the raising ones and the rest of the order changes no outcome
KeyOrders(self) ==
    IF DOMAIN self.transition_table = {} THEN {<< >>}
    ELSE {<<first>> \o SetToSeq(DOMAIN self.transition_table \ {first}) :
            first \in DOMAIN self.transition_table}

to_json(self, keys) ==
    [states |-> SetToSeq(self.states),
     alphabet |-> SetToSeq(self.alphabet),
     transition_table |->
        [i \in 1..Len(keys) |->
            [from_state |-> keys[i][1],
             symbol |-> keys[i][2],
             to_states |-> SetToSeq(self.transition_table[keys[i]])]],
     start_state |-> self.start_state,
     accept_states |-> SetToSeq(self.accept_states)]

\* the loop of from_json: every record goes through add_transition, and the
\* first exception leaves from_json without a result; set(trans["to_states"])
\* is handed over as the list it was built from, the targets being distinct
RECURSIVE from_json_loop(_, _, _)
from_json_loop(nfa_, table, i) ==
    IF i > Len(table) THEN [raised |-> "ok", nfa |-> nfa_]
    ELSE LET r == add_transition(nfa_, table[i].from_state, table[i].symbol,
                                 table[i].to_states)
         IN IF r.raised # "ok" THEN r
            ELSE from_json_loop(r.nfa, table, i + 1)

from_json(data) ==
    from_json_loop(NFA(Range(data.states), Range(data.alphabet),
                       data.start_state, Range(data.accept_states)),
                   data.transition_table, 1)

\* ------------------------------------------------------------------- state
VARIABLES
    nfa,      \* the automaton the client holds
    op,       \* the operation applied last
    arg,      \* its arguments, self included
    out,      \* what it returned or raised
    ever,     \* every identifier that has been in nfa.states since nfa was created
    steps     \* operations applied so far; an operation that leaves the
              \* automaton as it was ends the sequence explored, since what
              \* can follow it can follow the state before it

vars == <<nfa, op, arg, out, ever, steps>>

\* the step count after an operation that took the automaton from a to b
Advance(a, b) == IF a = b THEN MaxSteps ELSE steps + 1

\* automata as the constructor delivers them to the scripts using the class
InitStates == {0, 1}
Constructed ==
    {NFA(S, {"a"}, st, acc) :
        <<S, st, acc>> \in {t \in (SUBSET InitStates) \X InitStates \X (SUBSET InitStates) :
                              t[2] \in t[1] /\ t[3] \subseteq t[1]}}

\* the offsets offered to get_with_offset
Offsets == {-1, 0, 2}
IdRange == -1..MaxState
InRange(a) == a.states \subseteq IdRange

Init ==
    /\ nfa \in Constructed
    /\ op = "init"
    /\ arg = [self |-> nfa]
    /\ out = "None"
    /\ ever = nfa.states
    /\ steps = 0

\* identifiers offered to add_transition: the known ones and an unknown one
Offered == nfa.states \cup {Max(nfa.states) + 1}

AddTransition ==
    /\ steps < MaxSteps
    /\ \E from_state \in Offered, symbol \in Symbols,
          to_states \in Tuples(Offered, MaxTo) :
          LET r == add_transition(nfa, from_state, symbol, to_states)
          IN /\ nfa' = r.nfa
             /\ op' = "add_transition"
             /\ arg' = [self |-> nfa, from_state |-> from_state,
                        symbol |-> symbol, to_states |-> to_states]
             /\ out' = r.raised
             /\ ever' = ever \cup r.nfa.states
    /\ steps' = Advance(nfa, nfa')

NewState ==
    /\ steps < MaxSteps
    /\ Max(nfa.states) < MaxState
    /\ nfa' = new_state(nfa)
    /\ op' = "new_state"
    /\ arg' = [self |-> nfa, ever |-> ever]
    /\ out' = "None"
    /\ ever' = ever \cup nfa'.states
    /\ steps' = Advance(nfa, nfa')

AddSymbol ==
    /\ steps < MaxSteps
    /\ \E symbol \in Symbols :
          /\ nfa' = add_symbol(nfa, symbol)
          /\ arg' = [self |-> nfa, symbol |-> symbol]
    /\ op' = "add_symbol"
    /\ out' = "None"
    /\ ever' = ever
    /\ steps' = Advance(nfa, nfa')

Run ==
    /\ steps < MaxSteps
    /\ \E input_str \in Inputs :
          /\ arg' = [self |-> nfa, input_str |-> input_str]
          /\ out' = run(nfa, input_str)
    /\ op' = "run"
    /\ UNCHANGED <<nfa, ever>>
    /\ steps' = Advance(nfa, nfa')

RemoveUnreachable ==
    /\ steps < MaxSteps
    /\ nfa' = remove_unreachable(nfa)
    /\ op' = "remove_unreachable"
    /\ arg' = [self |-> nfa]
    /\ out' = "None"
    /\ ever' = ever
    /\ steps' = Advance(nfa, nfa')

GetWithOffset ==
    /\ steps < MaxSteps
    /\ \E offset \in Offsets :
          /\ InRange(get_with_offset(nfa, offset))
          /\ nfa' = get_with_offset(nfa, offset)
          /\ arg' = [self |-> nfa, offset |-> offset]
    /\ op' = "get_with_offset"
    /\ out' = nfa'
    /\ ever' = nfa'.states
    /\ steps' = Advance(nfa, nfa')

\* the operand pairs a script can pass: the held automaton with a freshly
\* constructed one on either side, or the held automaton twice
Others ==
    {NFA({0}, {"a"}, 0, {0}), NFA({1}, {"a"}, 1, {1}), NFA({0, 1}, {"a"}, 0, {1})}
Operands ==
    {<<nfa, other>> : other \in Others} \cup
    {<<other, nfa>> : other \in Others} \cup {<<nfa, nfa>>}

Concatenation ==
    /\ steps < MaxSteps
    /\ \E pair \in Operands :
          /\ InRange(concatenation(pair[1], pair[2]))
          /\ nfa' = concatenation(pair[1], pair[2])
          /\ arg' = [nfa1 |-> pair[1], nfa2 |-> pair[2]]
    /\ op' = "concatenation"
    /\ out' = nfa'
    /\ ever' = nfa'.states
    /\ steps' = Advance(nfa, nfa')

Alternative ==
    /\ steps < MaxSteps
    /\ \E pair \in Operands :
          /\ InRange(alternative(pair[1], pair[2]))
          /\ nfa' = alternative(pair[1], pair[2])
          /\ arg' = [nfa1 |-> pair[1], nfa2 |-> pair[2]]
    /\ op' = "alternative"
    /\ out' = nfa'
    /\ ever' = nfa'.states
    /\ steps' = Advance(nfa, nfa')

Iteration ==
    /\ steps < MaxSteps
    /\ InRange(iteration(nfa))
    /\ nfa' = iteration(nfa)
    /\ op' = "iteration"
    /\ arg' = [nfa |-> nfa]
    /\ out' = nfa'
    /\ ever' = nfa'.states
    /\ steps' = Advance(nfa, nfa')

\* from_json(to_json(nfa)): the held automaton is written and read back
RoundTrip ==
    /\ steps < MaxSteps
    /\ \E keys \in KeyOrders(nfa) :
          out' = from_json(to_json(nfa, keys))
    /\ op' = "from_json"
    /\ arg' = [self |-> nfa]
    /\ UNCHANGED <<nfa, ever>>
    /\ steps' = Advance(nfa, nfa')

\* nfa_main.py: the script builds its two automata and concatenates them
main_nfa1 ==
    LET n0 == NFA({1, 2, 3}, {"a", "b", "c"}, 1, {2})
        n1 == add_transition(n0, 1, "a", <<2, 3>>).nfa
        n2 == add_transition(n1, 2, "b", <<3>>).nfa
    IN add_transition(n2, 3, "c", <<3>>).nfa

main_nfa2 ==
    LET n0 == NFA({11, 12}, {"a", "b", "c"}, 11, {12})
        n1 == add_transition(n0, 11, "a", <<12>>).nfa
    IN add_transition(n1, 12, "c", <<12>>).nfa

NfaMain ==
    /\ steps = 0
    /\ nfa' = concatenation(main_nfa1, main_nfa2)
    /\ op' = "concatenation"
    /\ arg' = [nfa1 |-> main_nfa1, nfa2 |-> main_nfa2]
    /\ out' = nfa'
    /\ ever' = nfa'.states
    /\ steps' = Advance(nfa, nfa')

Next ==
    \/ NfaMain
    \/ AddTransition
    \/ NewState
    \/ AddSymbol
    \/ Run
    \/ RemoveUnreachable
    \/ GetWithOffset
    \/ Concatenation
    \/ Alternative
    \/ Iteration
    \/ RoundTrip

Spec == Init /\ [][Next]_vars

\* ------------------------------------------------------- claim vocabulary
Sources(a) == {key[1] : key \in DOMAIN a.transition_table}
Targets(a) == UNION {a.transition_table[key] : key \in DOMAIN a.transition_table}
Labels(a) == {key[2] : key \in DOMAIN a.transition_table}

\* the structural invariants of the data model
WellFormed(a) ==
    /\ a.start_state \in a.states
    /\ a.accept_states \subseteq a.states
    /\ Sources(a) \subseteq a.states
    /\ Targets(a) \subseteq a.states

NoTransitionIntoStart(a) == a.start_state \notin Targets(a)

\* a valid automaton: non-negative identifiers, well formed, no transition into
\* its start state, every label a declared symbol or epsilon, epsilon not a
\* declared symbol
Valid(a) ==
    /\ \A s \in a.states : s >= 0
    /\ WellFormed(a)
    /\ NoTransitionIntoStart(a)
    /\ Labels(a) \subseteq a.alphabet \cup {EPS}
    /\ EPS \notin a.alphabet

\* acceptance as the specification defines it: epsilon edges are followed
\* before, between and after the symbol-consuming moves
RECURSIVE EpsilonClosure(_, _)
EpsilonClosure(a, S) ==
    LET more == S \cup UNION {Get(a.transition_table, <<s, EPS>>) : s \in S}
    IN IF more = S THEN S ELSE EpsilonClosure(a, more)

RECURSIVE StatesAfter(_, _, _, _)
StatesAfter(a, S, w, i) ==
    IF i > Len(w) THEN EpsilonClosure(a, S)
    ELSE StatesAfter(a,
            UNION {Get(a.transition_table, <<s, w[i]>>) : s \in EpsilonClosure(a, S)},
            w, i + 1)

Accepts(a, w) == StatesAfter(a, {a.start_state}, w, 1) \cap a.accept_states # {}

\* ------------------------------------------------------------------ claims

\* C1: run(input) is true exactly when some path from start_state consumes the
\* whole input, with epsilon moves allowed anywhere, and ends in an accept state
C1_RunDecidesAcceptance ==
    (op = "run" /\ Valid(arg.self) /\ EPS \notin Range(arg.input_str))
        => (out = Accepts(arg.self, arg.input_str))

\* C2: remove_unreachable changes the verdict of run for no input string
C2_PruneKeepsVerdict ==
    (op = "remove_unreachable" /\ Valid(arg.self))
        => \A w \in Inputs : run(nfa, w) = run(arg.self, w)

\* C3: alternative(A, B) accepts exactly the strings A or B accepts
C3_AlternativeIsUnion ==
    (op = "alternative" /\ Valid(arg.nfa1) /\ Valid(arg.nfa2))
        => \A w \in Inputs : run(nfa, w) = (run(arg.nfa1, w) \/ run(arg.nfa2, w))

\* C4: with disjoint operands, concatenation(A, B) accepts x + y whenever A
\* accepts x and B accepts y; the automaton of nfa_main.py accepts "aac"
C4_ConcatenationAccepts ==
    (op = "concatenation" /\ Valid(arg.nfa1) /\ Valid(arg.nfa2)
        /\ arg.nfa1.states \cap arg.nfa2.states = {})
        => /\ \A x, y \in Inputs :
                (run(arg.nfa1, x) /\ run(arg.nfa2, y)) => run(nfa, x \o y)
           /\ (arg.nfa1 = main_nfa1 /\ arg.nfa2 = main_nfa2)
                => run(nfa, <<"a", "a", "c">>)

\* C5: a failing add_transition leaves the whole automaton as it was
C5_AddTransitionAtomic ==
    (op = "add_transition" /\ out # "ok") => nfa = arg.self

\* a call that fails on a target that comes after a valid target
C5_Witness ==
    /\ op = "add_transition"
    /\ out \in {"UnknownState", "IllegalStartTarget"}
    /\ arg.symbol \in arg.self.alphabet
    /\ arg.from_state \in arg.self.states
    /\ Len(arg.to_states) >= 2
    /\ arg.to_states[1] \in arg.self.states \ {arg.self.start_state}

\* C6: new_state allocates an identifier above every present one that was
\* never in states before
C6_NewStateNeverReuses ==
    op = "new_state"
        => /\ nfa.states \ arg.self.states # {}
           /\ \A id \in nfa.states \ arg.self.states :
                /\ \A s \in arg.self.states : id > s
                /\ id \notin arg.ever

\* C7: from_json(to_json(A)) succeeds and rebuilds A
C7_JsonRoundTrip ==
    (op = "from_json" /\ Valid(arg.self))
        => (out.raised = "ok" /\ out.nfa = arg.self)

\* C8: get_with_offset(k) shifts every identifier by k, keeps the alphabet and
\* keeps the verdict of run for every input
C8_OffsetKeepsVerdict ==
    (op = "get_with_offset" /\ Valid(arg.self))
        => LET A == arg.self
               k == arg.offset
           IN /\ nfa.alphabet = A.alphabet
              /\ nfa.states = {s + k : s \in A.states}
              /\ nfa.start_state = A.start_state + k
              /\ nfa.accept_states = {s + k : s \in A.accept_states}
              /\ DOMAIN nfa.transition_table =
                    {<<key[1] + k, key[2]>> : key \in DOMAIN A.transition_table}
              /\ \A key \in DOMAIN A.transition_table :
                    nfa.transition_table[<<key[1] + k, key[2]>>] =
                        {s + k : s \in A.transition_table[key]}
              /\ \A w \in Inputs : run(nfa, w) = run(A, w)

\* a renumbering by a non-zero offset of an automaton that accepts a non-empty
\* string along its transitions
C8_Witness ==
    /\ op = "get_with_offset"
    /\ Valid(arg.self)
    /\ arg.offset # 0
    /\ \E w \in Inputs : Len(w) > 0 /\ run(arg.self, w) /\ run(nfa, w)

\* C9: start_state is in states, accept_states is a subset of states and every
\* source and target of the transition table is in states
C9_WellFormed == WellFormed(nfa)

\* the operands of the combinator applied last
CombinatorOperands ==
    IF op = "iteration" THEN {arg.nfa} ELSE {arg.nfa1, arg.nfa2}

\* concatenation unites the operands as they are and adds exactly the epsilon
\* edges from the accept states of nfa1 to the start state of nfa2
ConcatenationShape ==
    /\ nfa.states = arg.nfa1.states \cup arg.nfa2.states
    /\ nfa.start_state = arg.nfa1.start_state
    /\ nfa.accept_states = arg.nfa2.accept_states
    /\ \A q \in arg.nfa1.accept_states :
          arg.nfa2.start_state \in Get(nfa.transition_table, <<q, EPS>>)
    /\ \A key \in DOMAIN nfa.transition_table :
          nfa.transition_table[key] =
              Get(arg.nfa1.transition_table, key)
              \cup Get(arg.nfa2.transition_table, key)
              \cup (IF key[2] = EPS /\ key[1] \in arg.nfa1.accept_states
                    THEN {arg.nfa2.start_state} ELSE {})

\* C10 as stated: for valid operands the result of every combinator has no
\* transition into its start state, and concatenation does not renumber
C10_AsStated ==
    (op \in {"concatenation", "alternative", "iteration"}
        /\ \A a \in CombinatorOperands : Valid(a))
        => /\ NoTransitionIntoStart(nfa)
           /\ op = "concatenation" => ConcatenationShape

\* C10 amended: the same, for concatenation only when the operands have disjoint
\* state identifiers
C10_NoTransitionIntoStart ==
    (op \in {"concatenation", "alternative", "iteration"}
        /\ (\A a \in CombinatorOperands : Valid(a))
        /\ (op = "concatenation" => arg.nfa1.states \cap arg.nfa2.states = {}))
        => /\ NoTransitionIntoStart(nfa)
           /\ op = "concatenation" => ConcatenationShape

\* a concatenation of disjoint valid operands that adds an epsilon edge beside
\* the transitions of the second operand
C10_Witness ==
    /\ op = "concatenation"
    /\ \A a \in CombinatorOperands : Valid(a)
    /\ arg.nfa1.states \cap arg.nfa2.states = {}
    /\ arg.nfa1.accept_states # {}
    /\ Targets(arg.nfa2) # {}

====
